---- MODULE Spec2Model ----
(***************************************************************************)
(* A model of flag::Parser (src/flags.hpp): registration of flags with     *)
(* set(), the token loop of parse(), the tokenizer is_flag / parse_flag,   *)
(* the value coercion set_value, the lookup get() and the callback         *)
(* dispatch call().                                                        *)
(*                                                                         *)
(* Text is a sequence of one-character strings, indexed from 0 as in the   *)
(* code (At, substr).  A Flag* is the position of the flag in m_flags      *)
(* (std::list keeps addresses stable).  Flag::description is left out: no  *)
(* modelled operation reads it.                                            *)
(***************************************************************************)
EXTENDS Integers, Sequences, FiniteSets, TLC

VARIABLES
    m_options,   \* Options: flag_prefix, separator, strict_flags
    m_args,      \* the argument vector handed to the constructor
    m_flags,     \* Flags: the flag store, in registration order
    m_table,     \* FlagTable: key (name or alias) -> position in m_flags
    m_flagless,  \* Flagless: the positional list
    a,           \* the loop variable of parse()
    pc,          \* "set" (registration), "parse" (inside the loop), "done" (parse
                 \* returned), "called" (call returned)
    result,      \* the Result parse() returned
    trace,       \* history: one record per loop iteration of parse()
    called,      \* history: the flags whose callback call() invoked, in order
    call_result  \* the Result call() returned

vars == <<m_options, m_args, m_flags, m_table, m_flagless, a, pc, result, trace,
          called, call_result>>

--------------------------------------------------------------------------
(* Bounds of the model *)

MaxArgs == 3
MaxTokLen == 5
MaxSepLen == 2
MaxPrefixLen == 2

--------------------------------------------------------------------------
(* Text helpers *)

Min(x, y) == IF x < y THEN x ELSE y
Max(x, y) == IF x > y THEN x ELSE y

\* std::string_view::substr(pos, n), pos <= size, n clamped to the end
substr(str, pos, n) == SubSeq(str, pos + 1, Min(pos + n, Len(str)))

\* std::string_view::substr(pos), pos <= size
substr_from(str, pos) == SubSeq(str, pos + 1, Len(str))

\* every text of length lo..hi over the characters cs
RECURSIVE TextsOfLen(_, _)
TextsOfLen(cs, n) ==
    IF n = 0 THEN { <<>> }
    ELSE { Append(t, c) : t \in TextsOfLen(cs, n - 1), c \in cs }

Texts(cs, lo, hi) == UNION { TextsOfLen(cs, n) : n \in lo..hi }

--------------------------------------------------------------------------
(* Types of the program *)

\* enum Type
String == "String"
Number == "Number"
Bool == "Bool"

\* FlagData, a variant<string_view, double, bool>: tag says which field is live
DataStr(s) == [tag |-> String, str |-> s, num |-> 0, bool |-> FALSE]
DataNum(n) == [tag |-> Number, str |-> <<>>, num |-> n, bool |-> FALSE]
DataBool(b) == [tag |-> Bool, str |-> <<>>, num |-> 0, bool |-> b]

\* struct Result
ResultOk == [ok |-> TRUE, flag_id |-> <<>>, error |-> ""]
ResultFail(id, msg) == [ok |-> FALSE, flag_id |-> id, error |-> msg]

\* std::optional<Flag*> without a value
None == 0


--------------------------------------------------------------------------
(* Inputs of the model: characters, options, tokens, flag declarations *)

\* Options{}: flag_prefix, separator, strict_flags
Options(prefix, sep, strict) ==
    [flag_prefix |-> prefix, separator |-> sep, strict_flags |-> strict]

\* The option records a parser is built with in Spec: the default prefix and
\* separator, strict or not, and a two-character prefix.  SpecTok draws
\* prefix and separator from wider sets.
OptionSet ==
    { Options(<<"-">>, <<"=">>, TRUE),
      Options(<<"-">>, <<"=">>, FALSE),
      Options(<<"-", "-">>, <<"=">>, FALSE) }

\* The tokens argument vectors are made of in Spec
Tokens ==
    { <<"-">>,                       \* as long as the prefix "-": positional
      <<"-", "3">>,                  \* a negative number, flag-shaped under "-"
      <<"-", "s", "=">>,             \* name s, separator last
      <<"-", "s", "=", "x">>,        \* name s, inline value x
      <<"-", "t">>,                  \* name t, no separator
      <<"-", "d", "=", "3", "x">>,   \* name d, inline value 3x
      <<"-", "b", "=", "x">>,        \* name b, inline value x
      <<"-", "-", "b">> }            \* name b under "--", name -b under "-"

ArgVectors == UNION { [1..n -> Tokens] : n \in 0..MaxArgs }

\* FlagFn values: no callback, a callback returning ok, one returning an error
FnNull == "nullptr"
FnOk == "fn_ok"
FnFail == "fn_fail"

\* struct Flag (triggered starts false)
Flag(name, data, type, aliases, fn) ==
    [name |-> name, data |-> data, type |-> type, aliases |-> aliases,
     fn |-> fn, triggered |-> FALSE]

\* The flags a program declares.  "s" is both the name of the String flag
\* and an alias of the Bool flag, so registering both collides on a key.
FlagDecls ==
    { Flag(<<"s">>, DataStr(<<"0">>), String, <<>>, FnOk),
      Flag(<<"d">>, DataNum(10), Number, << <<"t">> >>, FnFail),
      Flag(<<"b">>, DataBool(FALSE), Bool, << <<"v">>, <<"s">> >>, FnNull) }

--------------------------------------------------------------------------
(* Tokenizer *)

\* is_flag with the length test off by one (< instead of <=): a token equal
\* to the prefix counts as a flag
is_flag_bare_prefix(str) ==
    LET size == Len(m_options.flag_prefix) IN
    IF Len(str) < size THEN FALSE
    ELSE \A i \in 0..(size - 1) : str[i + 1] = m_options.flag_prefix[i + 1]

\* bool is_flag(std::string_view str)
is_flag(str) ==
    LET size == Len(m_options.flag_prefix) IN
    IF Len(str) <= size THEN FALSE
    ELSE \A i \in 0..(size - 1) : str[i + 1] = m_options.flag_prefix[i + 1]

\* What lies in memory behind a token: str[i] with i >= str.size() is a read
\* outside the view, which may yield any character.  NUL is the terminator
\* of an argv string; it equals no separator character.
NUL == "NUL"
TailChars == { "=", ":", NUL }
Tails == [1..MaxSepLen -> TailChars]

\* str[i], 0-based, reading from tail when i is outside the view
At(str, tail, i) ==
    IF i < Len(str) THEN str[i + 1]
    ELSE IF i - Len(str) + 1 \in DOMAIN tail THEN tail[i - Len(str) + 1]
    ELSE NUL

\* The outer loop of parse_flag from position i on.  The inner loop starts
\* j at i (not at 0) and advances i and j together, so it compares str[k]
\* with sep[k] for k = i .. sep.size()-1 and leaves j = max(i, sep.size()).
\* maxread is the greatest index of str read so far.
RECURSIVE parse_flag_loop(_, _, _, _)
parse_flag_loop(str, tail, i, maxread) ==
    LET sep == m_options.separator
        s == Len(sep)
    IN
    IF i >= Len(str)
    THEN [sep_start |-> Len(str), found_sep |-> FALSE, maxread |-> maxread]
    ELSE IF str[i + 1] = sep[1]
    THEN LET found == \A k \in i..(s - 1) : At(str, tail, k) = sep[k + 1]
             j == Max(i, s)
             mr == Max(maxread, Max(i, s - 1))
         IN IF found
            THEN [sep_start |-> j, found_sep |-> TRUE, maxread |-> mr]
            ELSE parse_flag_loop(str, tail, j + 1, mr)
    ELSE parse_flag_loop(str, tail, i + 1, Max(maxread, i))

\* std::pair<size_t, bool> parse_flag(str, offset), for one content of the
\* memory behind str
parse_flag_mem(str, offset, tail) == parse_flag_loop(str, tail, offset, -1)

\* parse_flag(str, offset): every outcome the reads outside the view allow
parse_flag(str, offset) == { parse_flag_mem(str, offset, t) : t \in Tails }

--------------------------------------------------------------------------
(* Value coercion *)

Digits == { "0", "1", "2", "3", "4", "5", "6", "7", "8", "9" }
DigitVal(c) ==
    CASE c = "0" -> 0 [] c = "1" -> 1 [] c = "2" -> 2 [] c = "3" -> 3
      [] c = "4" -> 4 [] c = "5" -> 5 [] c = "6" -> 6 [] c = "7" -> 7
      [] c = "8" -> 8 [] c = "9" -> 9

\* the number of leading digits of str from position i (0-based) on
RECURSIVE DigitRun(_, _)
DigitRun(str, i) ==
    IF i < Len(str) /\ str[i + 1] \in Digits THEN 1 + DigitRun(str, i + 1) ELSE 0

\* the decimal value of the n digits of str from position i on
RECURSIVE DecimalValue(_, _, _)
DecimalValue(str, i, n) ==
    IF n = 0 THEN 0
    ELSE 10 * DecimalValue(str, i, n - 1) + DigitVal(str[i + n])

\* std::from_chars(first, last, double&): the longest prefix of str that is a
\* numeric literal is converted; ptr is the position after it; ec is
\* invalid_argument when no prefix is one.  The model's texts hold no ".",
\* "e", "inf" or "nan", so a literal is an optional "-" and digits.
from_chars(str) ==
    LET neg == Len(str) > 0 /\ str[1] = "-"
        first == IF neg THEN 1 ELSE 0
        n == DigitRun(str, first)
        v == DecimalValue(str, first, n)
    IN IF n = 0
       THEN [ec_ok |-> FALSE, ptr |-> 0, value |-> 0]
       ELSE [ec_ok |-> TRUE, ptr |-> first + n, value |-> IF neg THEN 0 - v ELSE v]

\* bool set_value(std::string_view str, Flag &flag): the return value and the
\* flag afterwards.  Only result.ec is tested, result.ptr is not.
set_value(str, flag) ==
    IF flag.type = String
    THEN [ok |-> TRUE, flag |-> [flag EXCEPT !.data = DataStr(str), !.triggered = TRUE]]
    ELSE IF flag.type = Number
    THEN LET r == from_chars(str) IN
         IF ~r.ec_ok
         THEN [ok |-> FALSE, flag |-> flag]
         ELSE [ok |-> TRUE,
               flag |-> [flag EXCEPT !.data = DataNum(r.value), !.triggered = TRUE]]
    ELSE [ok |-> TRUE, flag |-> [flag EXCEPT !.triggered = TRUE]]

--------------------------------------------------------------------------
(* Registry *)

EmptyTable == [k \in {} |-> None]

\* emplace as an assignment m_table[key] = p: an existing key is overwritten
emplace_overwrite(table, key, p) ==
    [k \in DOMAIN table \cup {key} |-> IF k = key THEN p ELSE table[k]]

\* std::unordered_map::emplace(key, p): inserts only if key is not yet a key
emplace(table, key, p) ==
    IF key \in DOMAIN table THEN table ELSE table @@ (key :> p)

\* the loop over f.aliases stopping one alias early
RECURSIVE emplace_aliases_short(_, _, _, _)
emplace_aliases_short(table, aliases, i, p) ==
    IF i >= Len(aliases) THEN table
    ELSE emplace_aliases_short(emplace(table, aliases[i], p), aliases, i + 1, p)

\* the loop over f.aliases in set(), from alias number i on
RECURSIVE emplace_aliases(_, _, _, _)
emplace_aliases(table, aliases, i, p) ==
    IF i > Len(aliases) THEN table
    ELSE emplace_aliases(emplace(table, aliases[i], p), aliases, i + 1, p)

\* the table after set(flag), the flag being stored at position p
table_set(table, flag, p) ==
    emplace_aliases(emplace(table, flag.name, p), flag.aliases, 1, p)

\* std::optional<Flag*> get(std::string_view id) const
get(table, id) == IF id \in DOMAIN table THEN table[id] ELSE None

--------------------------------------------------------------------------
(* parse(): the pieces of one loop iteration *)

\* std::string_view id = arg.substr(prefix_end, sep_start - prefix_end)
flag_id(arg, prefix_end, sep_start) == substr(arg, prefix_end, sep_start - prefix_end)

\* on_unknown with the strict_flags test lost: an unknown flag never ends parse()
on_unknown_lenient(strict_flags) == "continue"

\* on_unknown with the strict_flags test lost the other way: it always ends parse()
on_unknown_strict(strict_flags) == "return"

\* if (!flag_opt.has_value()): return the error when strict_flags, else continue
on_unknown(strict_flags) == IF strict_flags THEN "return" ELSE "continue"

\* trigger_bool without the triggered mark
trigger_bool_unmarked(flag) == [flag EXCEPT !.data = DataBool(TRUE)]

\* flag->data = true; flag->triggered = true
trigger_bool(flag) == [flag EXCEPT !.data = DataBool(TRUE), !.triggered = TRUE]

\* value_source with a separator at the end of the token taken as an empty
\* inline value (sep_start <= size instead of <)
value_source_empty_inline(arg, found_sep, sep_start, i) ==
    IF found_sep /\ sep_start + 1 <= Len(arg)
    THEN [src |-> "inline", str |-> substr_from(arg, sep_start + 1), a |-> i]
    ELSE IF i + 1 < Len(m_args)
    THEN [src |-> "next", str |-> m_args[i + 2], a |-> i + 1]
    ELSE [src |-> "none", str |-> <<>>, a |-> i]

\* value_source reading the next token without advancing (m_args[a+1], no ++a)
value_source_no_advance(arg, found_sep, sep_start, i) ==
    IF found_sep /\ sep_start + 1 < Len(arg)
    THEN [src |-> "inline", str |-> substr_from(arg, sep_start + 1), a |-> i]
    ELSE IF i + 1 < Len(m_args)
    THEN [src |-> "next", str |-> m_args[i + 2], a |-> i]
    ELSE [src |-> "none", str |-> <<>>, a |-> i]

\* The choice of value_str:
\*   if (found_sep && ++sep_start < arg.size()) value_str = arg.substr(sep_start);
\*   else if (a+1 < m_args.size())              value_str = m_args[++a];
\*   else                                       return fail_result;
\* src names the branch, a is the loop variable afterwards.
value_source(arg, found_sep, sep_start, i) ==
    IF found_sep /\ sep_start + 1 < Len(arg)
    THEN [src |-> "inline", str |-> substr_from(arg, sep_start + 1), a |-> i]
    ELSE IF i + 1 < Len(m_args)
    THEN [src |-> "next", str |-> m_args[i + 2], a |-> i + 1]
    ELSE [src |-> "none", str |-> <<>>, a |-> i]

\* One record of the history: the token index of the iteration, the branch it
\* took, whether get() was called, the tokenizer's answer, the flag found and
\* the index of the token taken as the value (-1: none).
Entry(branch, looked, id, r, flag, taken) ==
    [a |-> a, branch |-> branch, looked |-> looked, id |-> id,
     sep_start |-> r.sep_start, found_sep |-> r.found_sep, maxread |-> r.maxread,
     flag |-> flag, taken |-> taken]

NoTok == [sep_start |-> 0, found_sep |-> FALSE, maxread |-> -1]

--------------------------------------------------------------------------
(* The state machine *)

\* Parser(View args, Options options)
Init ==
    /\ m_options \in OptionSet
    /\ m_args \in ArgVectors
    /\ m_flags = <<>>
    /\ m_table = EmptyTable
    /\ m_flagless = <<>>
    /\ a = 0
    /\ pc = "set"
    /\ result = ResultOk
    /\ trace = <<>>
    /\ called = <<>>
    /\ call_result = ResultOk

\* Parser& set(Flag &&flag), before parse() is called; a program registers
\* each flag it declares at most once
Set(flag) ==
    /\ pc = "set"
    /\ \A k \in 1..Len(m_flags) : m_flags[k] # flag
    /\ m_flags' = Append(m_flags, flag)
    /\ m_table' = table_set(m_table, flag, Len(m_flags) + 1)
    /\ UNCHANGED <<m_options, m_args, m_flagless, a, pc, result, trace,
                   called, call_result>>

\* return Result{false, id, msg} out of the loop
Return(res, entry) ==
    /\ result' = res
    /\ pc' = "done"
    /\ trace' = Append(trace, entry)
    /\ UNCHANGED <<m_flags, m_flagless, a>>

\* continue, or the end of the loop body: a++ and the next iteration
Continue(flags, flagless, i, entry) ==
    /\ m_flags' = flags
    /\ m_flagless' = flagless
    /\ a' = i + 1
    /\ pc' = "parse"
    /\ trace' = Append(trace, entry)
    /\ UNCHANGED result

\* One iteration of the for loop of parse()
ParseIter ==
    /\ pc \in {"set", "parse"}
    /\ a < Len(m_args)
    /\ UNCHANGED <<m_options, m_args, m_table, called, call_result>>
    /\ LET arg == m_args[a + 1] IN
       IF ~is_flag(arg)
       THEN Continue(m_flags, Append(m_flagless, arg), a,
                     Entry("positional", FALSE, <<>>, NoTok, None, -1))
       ELSE
         \E r \in parse_flag(arg, Len(m_options.flag_prefix)) :
           LET id == flag_id(arg, Len(m_options.flag_prefix), r.sep_start)
               flag_opt == get(m_table, id)
           IN
           IF flag_opt = None
           THEN IF on_unknown(m_options.strict_flags) = "return"
                THEN Return(ResultFail(id, "invalid flag id used"),
                            Entry("invalid", TRUE, id, r, None, -1))
                ELSE Continue(m_flags, m_flagless, a,
                              Entry("skipped", TRUE, id, r, None, -1))
           ELSE IF m_flags[flag_opt].type = Bool
           THEN Continue([m_flags EXCEPT ![flag_opt] = trigger_bool(@)], m_flagless, a,
                         Entry("bool", TRUE, id, r, flag_opt, -1))
           ELSE
             LET vs == value_source(arg, r.found_sep, r.sep_start, a)
                 fail_result == ResultFail(id, "could not set flag value")
             IN
             IF vs.src = "none"
             THEN Return(fail_result, Entry("no_value", TRUE, id, r, flag_opt, -1))
             ELSE
               LET sv == set_value(vs.str, m_flags[flag_opt])
                   taken == IF vs.src = "next" THEN vs.a ELSE -1
               IN
               IF ~sv.ok
               THEN /\ result' = fail_result
                    /\ pc' = "done"
                    /\ a' = vs.a
                    /\ trace' = Append(trace, Entry("bad_value", TRUE, id, r, flag_opt, taken))
                    /\ UNCHANGED <<m_flags, m_flagless>>
               ELSE Continue([m_flags EXCEPT ![flag_opt] = sv.flag], m_flagless, vs.a,
                             Entry(vs.src, TRUE, id, r, flag_opt, taken))

\* The loop is over: return Result{}
ParseReturn ==
    /\ pc \in {"set", "parse"}
    /\ a >= Len(m_args)
    /\ result' = ResultOk
    /\ pc' = "done"
    /\ UNCHANGED <<m_options, m_args, m_flags, m_table, m_flagless, a, trace,
                   called, call_result>>

\* (*flag.fn)(flag): the callbacks of the model leave the flag as it is;
\* fn_ok returns Result{}, fn_fail an error naming the flag
invoke(flag) ==
    IF flag.fn = FnOk THEN ResultOk ELSE ResultFail(flag.name, "callback failed")

\* call_loop going on after a callback has failed; the last error is returned
RECURSIVE call_loop_no_stop(_, _, _, _)
call_loop_no_stop(flags, k, invoked, res) ==
    IF k > Len(flags) THEN [result |-> res, called |-> invoked]
    ELSE IF flags[k].triggered /\ flags[k].fn # FnNull
    THEN LET r == invoke(flags[k]) IN
         call_loop_no_stop(flags, k + 1, Append(invoked, k), IF r.ok THEN res ELSE r)
    ELSE call_loop_no_stop(flags, k + 1, invoked, res)

\* The loop of call() from flag k on: the Result returned and the flags whose
\* callback was invoked.  res is what is returned when the loop runs out.
RECURSIVE call_loop(_, _, _, _)
call_loop(flags, k, invoked, res) ==
    IF k > Len(flags) THEN [result |-> res, called |-> invoked]
    ELSE IF flags[k].triggered /\ flags[k].fn # FnNull
    THEN LET r == invoke(flags[k]) IN
         IF ~r.ok THEN [result |-> r, called |-> Append(invoked, k)]
         ELSE call_loop(flags, k + 1, Append(invoked, k), res)
    ELSE call_loop(flags, k + 1, invoked, res)

\* Result call(), after parse() has returned
Call ==
    /\ pc = "done"
    /\ LET c == call_loop(m_flags, 1, <<>>, ResultOk) IN
         /\ called' = c.called
         /\ call_result' = c.result
    /\ pc' = "called"
    /\ UNCHANGED <<m_options, m_args, m_flags, m_table, m_flagless, a, result, trace>>

Next ==
    \/ \E flag \in FlagDecls : Set(flag)
    \/ ParseIter
    \/ ParseReturn
    \/ Call

Spec == Init /\ [][Next]_vars

--------------------------------------------------------------------------
(* The tokenizer on its own: one token, every prefix and separator up to a
   length, one String flag named s registered before parse() *)

TokChars == { "-", "=", ":", "s" }
PrefixChars == { "-" }
SepChars == { "=", ":" }

TokOptionSet ==
    { Options(p, s, st) : p \in Texts(PrefixChars, 0, MaxPrefixLen),
                          s \in Texts(SepChars, 1, MaxSepLen),
                          st \in BOOLEAN }

TokFlag == Flag(<<"s">>, DataStr(<<"0">>), String, <<>>, FnNull)

InitTok ==
    /\ m_options \in TokOptionSet
    /\ m_args \in { <<t>> : t \in Texts(TokChars, 1, MaxTokLen) }
    /\ m_flags = <<TokFlag>>
    /\ m_table = table_set(EmptyTable, TokFlag, 1)
    /\ m_flagless = <<>>
    /\ a = 0
    /\ pc = "parse"
    /\ result = ResultOk
    /\ trace = <<>>
    /\ called = <<>>
    /\ call_result = ResultOk

NextTok == ParseIter \/ ParseReturn

SpecTok == InitTok /\ [][NextTok]_vars

--------------------------------------------------------------------------
(* Vocabulary of the properties *)

\* the step is one iteration of the loop of parse()
IterStep ==
    /\ pc \in {"set", "parse"}
    /\ a < Len(m_args)
    /\ Len(trace') = Len(trace) + 1

\* the token of that iteration and its record in the history
Arg == m_args[a + 1]
E == trace'[Len(trace')]

\* the record of the latest iteration
Last == trace[Len(trace)]

\* the iteration's token resolved to a flag of this type
Resolved(types) ==
    /\ IterStep
    /\ E.looked
    /\ E.flag # None
    /\ m_flags[E.flag].type \in types

\* the tokenizer reported a separator and a character follows it in the token
HasInline == E.found_sep /\ E.sep_start + 1 < Len(Arg)
HasNext == a + 1 < Len(m_args)

\* the flag store with the data of flag k replaced and the flag triggered
Triggered(flags, k, data) ==
    [flags EXCEPT ![k] = [@ EXCEPT !.data = data, !.triggered = TRUE]]

CouldNotSet(id) == ResultFail(id, "could not set flag value")

--------------------------------------------------------------------------
(* C1 *)

\* a String flag's token whose (one-character) separator is its last character
TrailingSepString ==
    /\ Resolved({String})
    /\ E.found_sep
    /\ E.sep_start + 1 = Len(Arg)

\* C1, as amended: a token that resolves to a String flag and ends with its
\* one-character separator (prefix "-", separator "=", token "-s=") does not
\* give the flag the empty string.  If a next token exists, that whole token
\* is consumed as the value (the flag is triggered with it, the index advances
\* by two, the positional list is untouched); if the token is the last one,
\* parse() fails with {false, name, "could not set flag value"} and no flag
\* changes.
C1_TrailingSeparatorFallsBack ==
    [][ TrailingSepString =>
          IF HasNext
          THEN /\ m_flags' = Triggered(m_flags, E.flag, DataStr(m_args[a + 2]))
               /\ a' = a + 2
               /\ m_flagless' = m_flagless
               /\ pc' = "parse"
               /\ result' = result
          ELSE /\ result' = CouldNotSet(E.id)
               /\ pc' = "done"
               /\ m_flags' = m_flags ]_vars

\* a String flag has taken the token after its "name=" token as its value
C1_Witness ==
    /\ trace # <<>>
    /\ Last.flag # None
    /\ m_flags[Last.flag].type = String
    /\ Last.found_sep
    /\ Last.sep_start + 1 = Len(m_args[Last.a + 1])
    /\ Last.taken = Last.a + 1
    /\ m_flags[Last.flag].triggered
    /\ m_flags[Last.flag].data = DataStr(m_args[Last.taken + 1])

\* C1 as stated: the flag is triggered with the empty string, parse() does
\* not fail and the next token is not consumed
C1_TrailingSeparatorIsEmptyValue ==
    [][ TrailingSepString =>
          /\ m_flags' = Triggered(m_flags, E.flag, DataStr(<<>>))
          /\ a' = a + 1
          /\ pc' = "parse" ]_vars

--------------------------------------------------------------------------
(* C2 *)

\* what set_value stores for a value text
Stored(type, str) ==
    IF type = String THEN DataStr(str) ELSE DataNum(from_chars(str).value)

\* the value text str is handed to the flag and adv tokens are used up: the
\* flag is triggered with the stored value and the loop goes on, or the text
\* is refused and parse() returns the error
ValueIs(str, adv) ==
    LET type == m_flags[E.flag].type IN
    IF type = Number /\ ~from_chars(str).ec_ok
    THEN /\ result' = CouldNotSet(E.id)
         /\ pc' = "done"
         /\ m_flags' = m_flags
         /\ m_flagless' = m_flagless
    ELSE /\ m_flags' = Triggered(m_flags, E.flag, Stored(type, str))
         /\ a' = a + adv
         /\ m_flagless' = m_flagless
         /\ pc' = "parse"
         /\ result' = result

\* C2: for a token that resolves to a non-Boolean flag, (1) with a separator
\* found and a character after it, the value is the rest of the token and the
\* index advances by one; (2) otherwise, if a next token exists, the value is
\* the whole next token, the index advances by two and the positional list
\* stays as it is, the stored value being what the inline form stores for the
\* same text; (3) otherwise parse() returns {false, candidate name, "could not
\* set flag value"}.
C2_ValueSourceSelection ==
    [][ Resolved({String, Number}) =>
          IF HasInline THEN ValueIs(substr_from(Arg, E.sep_start + 1), 1)
          ELSE IF HasNext THEN ValueIs(m_args[a + 2], 2)
          ELSE /\ result' = CouldNotSet(E.id)
               /\ pc' = "done"
               /\ m_flags' = m_flags
               /\ m_flagless' = m_flagless ]_vars

\* a flag-shaped next token has been consumed as the value of a flag without a
\* separator
C2_Witness ==
    /\ trace # <<>>
    /\ Last.flag # None
    /\ ~Last.found_sep
    /\ Last.taken = Last.a + 1
    /\ a = Last.a + 2
    /\ m_options.flag_prefix = <<"-">>
    /\ m_args[Last.taken + 1] = <<"-", "3">>
    /\ m_flags[Last.flag].triggered
    /\ m_flags[Last.flag].data = DataNum(-3)

--------------------------------------------------------------------------
(* C3 *)

\* the whole text is a base-10 literal: an optional "-" and digits
IsNumeral(str) ==
    LET first == IF Len(str) > 0 /\ str[1] = "-" THEN 1 ELSE 0 IN
    /\ Len(str) > first
    /\ \A k \in (first + 1)..Len(str) : str[k] \in Digits

\* the value text of the iteration
ValueText == IF HasInline THEN substr_from(Arg, E.sep_start + 1) ELSE m_args[a + 2]

\* C3: for a Number flag a value text that is not wholly a base-10 literal
\* (trailing garbage such as "3x") makes parse() return {false, matched id,
\* "could not set flag value"} and leaves the flag's value and triggered mark
\* as they were.
C3_NumberCoercionIsStrict ==
    [][ (Resolved({Number}) /\ (HasInline \/ HasNext) /\ ~IsNumeral(ValueText)) =>
          /\ result' = CouldNotSet(E.id)
          /\ pc' = "done"
          /\ m_flags' = m_flags ]_vars

--------------------------------------------------------------------------
(* C4 *)

\* the complete separator lies in str at position q (0-based)
SepAt(str, q) ==
    LET sep == m_options.separator IN
    /\ q + Len(sep) <= Len(str)
    /\ \A k \in 1..Len(sep) : str[q + k] = sep[k]

\* the first position from `from` on where the complete separator lies, or -1
FirstSep(str, from) ==
    LET qs == { q \in from..(Len(str) - 1) : SepAt(str, q) } IN
    IF qs = {} THEN -1 ELSE CHOOSE q \in qs : \A q2 \in qs : q <= q2

\* C4: for every prefix, separator and flag-like token, a separator is
\* reported found only at the first position after the prefix where the
\* complete separator lies in the token; the candidate name is then the text
\* from the prefix end to that position, and an inline value starts right
\* after the last character of the separator.
C4_SeparatorMatchesInFull ==
    [][ (IterStep /\ E.looked /\ E.found_sep) =>
          LET p == Len(m_options.flag_prefix)
              q == FirstSep(Arg, p)
          IN /\ q >= 0
             /\ E.sep_start = q
             /\ E.id = substr(Arg, p, q - p)
             /\ (E.branch = "inline" =>
                   m_flags'[E.flag].data =
                     DataStr(substr_from(Arg, q + Len(m_options.separator)))) ]_vars

\* where the code does match in full: a separator of one character behind a
\* prefix that is not empty (the scan then never starts below sep.size())
C4_OneCharSeparator ==
    [][ (Len(m_options.separator) = 1 /\ Len(m_options.flag_prefix) >= 1) =>
          C4_SeparatorMatchesInFull!1 ]_vars

\* prefix "-", separator "=:", token "-s=s": the token holds no "=:", yet the
\* String flag s has been given the inline value "s"
C4_FirstCharAlone ==
    /\ m_options.flag_prefix = <<"-">>
    /\ m_options.separator = <<"=", ":">>
    /\ m_args = << <<"-", "s", "=", "s">> >>
    /\ m_flags[1].triggered
    /\ m_flags[1].data = DataStr(<<"s">>)

--------------------------------------------------------------------------
(* C5 *)

\* flag-shaped: longer than the prefix and starting with it
FlagShaped(tok) ==
    LET prefix == m_options.flag_prefix IN
    /\ Len(tok) > Len(prefix)
    /\ SubSeq(tok, 1, Len(prefix)) = prefix

\* the indexes of the tokens taken as a flag's value (m_args[++a]), and of the
\* tokens whose candidate name was looked up
TakenIdx == { trace[i].taken : i \in DOMAIN trace } \ { -1 }
LookedIdx == { trace[i].a : i \in { k \in DOMAIN trace : trace[k].looked } }

\* the first n elements of seq whose 0-based index is in idx, in order
RECURSIVE Picked(_, _, _)
Picked(seq, idx, n) ==
    IF n = 0 THEN <<>>
    ELSE IF (n - 1) \in idx THEN Append(Picked(seq, idx, n - 1), seq[n])
    ELSE Picked(seq, idx, n - 1)

NotFlagShapedIdx == { i \in 0..(Len(m_args) - 1) : ~FlagShaped(m_args[i + 1]) }

\* C5, as amended: after parse() returns ok, the positional list args() is
\* exactly the tokens that are not flag-shaped and were not consumed as the
\* value of a preceding non-Boolean flag, in their original order, and no
\* token that is not flag-shaped was looked up in the flag table.
C5_PositionalsExceptConsumed ==
    (pc = "done" /\ result.ok) =>
        /\ m_flagless = Picked(m_args, NotFlagShapedIdx \ TakenIdx, Len(m_args))
        /\ LookedIdx \cap NotFlagShapedIdx = {}

\* parse() returned ok after a token that is not flag-shaped was consumed as a
\* flag's value and another one was appended to the positional list
C5_Witness ==
    /\ pc = "done"
    /\ result.ok
    /\ TakenIdx \cap NotFlagShapedIdx # {}
    /\ m_flagless # <<>>

\* C5 as stated: after parse() returns ok, every token that is not
\* flag-shaped is in the positional list, in the original order
C5_EveryPositionalListed ==
    (pc = "done" /\ result.ok) =>
        /\ m_flagless = Picked(m_args, NotFlagShapedIdx, Len(m_args))
        /\ LookedIdx \cap NotFlagShapedIdx = {}

--------------------------------------------------------------------------
(* C6 *)

\* C6: a token whose candidate name resolves to a Bool flag sets the flag's
\* value to true and its triggered mark, advances by exactly one token and
\* changes nothing else: an inline value in the token is ignored and the
\* following token is left to the next iteration.
C6_BoolConsumesNothing ==
    [][ Resolved({Bool}) =>
          /\ m_flags' = Triggered(m_flags, E.flag, DataBool(TRUE))
          /\ a' = a + 1
          /\ E.taken = -1
          /\ m_flagless' = m_flagless
          /\ pc' = "parse"
          /\ result' = result ]_vars

\* a Bool flag's token with an inline value was followed by a positional
\* token, which is now the last element of the positional list
C6_Witness ==
    /\ Len(trace) >= 2
    /\ LET b == trace[Len(trace) - 1] IN
         /\ b.flag # None
         /\ m_flags[b.flag].type = Bool
         /\ m_flags[b.flag].triggered
         /\ m_flags[b.flag].data = DataBool(TRUE)
         /\ b.found_sep
         /\ b.sep_start + 1 < Len(m_args[b.a + 1])
         /\ Last.a = b.a + 1
    /\ ~Last.looked
    /\ m_flagless # <<>>
    /\ m_flagless[Len(m_flagless)] = m_args[Last.a + 1]

--------------------------------------------------------------------------
(* C7 *)

\* id is no name and no alias of a registered flag
Unknown(id) ==
    \A k \in 1..Len(m_flags) :
        /\ m_flags[k].name # id
        /\ \A j \in 1..Len(m_flags[k].aliases) : m_flags[k].aliases[j] # id

\* the iteration's token is flag-shaped and its candidate name is unknown
UnknownStep == IterStep /\ E.looked /\ Unknown(E.id)

\* C7: with strict_flags, a flag-shaped token whose candidate name is unknown
\* makes parse() return {false, candidate name, "invalid flag id used"}; the
\* flags and the positional list stay as the earlier tokens left them, and
\* once parse() has returned no further token is processed.
C7_StrictFirstErrorWins ==
    [][ /\ (UnknownStep /\ m_options.strict_flags) =>
              /\ result' = ResultFail(E.id, "invalid flag id used")
              /\ pc' = "done"
              /\ a' = a
              /\ m_flags' = m_flags
              /\ m_flagless' = m_flagless
        /\ (pc = "done" /\ ~result.ok) =>
              /\ trace' = trace
              /\ a' = a
              /\ m_flags' = m_flags
              /\ m_flagless' = m_flagless
              /\ result' = result ]_vars

\* parse() has returned "invalid flag id used" after a positional token was
\* appended and before the last token was reached
C7_Witness ==
    /\ pc = "done"
    /\ trace # <<>>
    /\ m_options.strict_flags
    /\ result = ResultFail(Last.id, "invalid flag id used")
    /\ m_flagless # <<>>
    /\ a + 1 < Len(m_args)

--------------------------------------------------------------------------
(* C8 *)

\* C8: without strict_flags, a flag-shaped token whose candidate name is
\* unknown is skipped: the positional list, every flag and the flag table
\* stay as they were, the index advances by one and parse() does not return.
C8_NonStrictSkipsUnknown ==
    [][ (UnknownStep /\ ~m_options.strict_flags) =>
          /\ m_flagless' = m_flagless
          /\ m_flags' = m_flags
          /\ m_table' = m_table
          /\ a' = a + 1
          /\ E.taken = -1
          /\ pc' = "parse"
          /\ result' = result
          /\ result.ok ]_vars

\* an unknown flag was skipped and the token after it was appended to the
\* positional list
C8_Witness ==
    /\ ~m_options.strict_flags
    /\ Len(trace) >= 2
    /\ LET u == trace[Len(trace) - 1] IN
         /\ u.looked
         /\ Unknown(u.id)
         /\ Last.a = u.a + 1
    /\ ~Last.looked
    /\ m_flagless = << m_args[Last.a + 1] >>
    /\ \A k \in 1..Len(m_flags) : ~m_flags[k].triggered

--------------------------------------------------------------------------
(* C9 *)

\* the keys a flag is registered under: its name and its aliases
Keys(flag) == { flag.name } \cup { flag.aliases[j] : j \in 1..Len(flag.aliases) }

\* none of the keys of flag k was a key of a flag registered before it
Fresh(k) == \A j \in 1..(k - 1) : Keys(m_flags[j]) \cap Keys(m_flags[k]) = {}

\* the flags a token has triggered so far
TriggeredByToken ==
    { trace[i].flag : i \in { n \in DOMAIN trace :
                                trace[n].branch \in {"bool", "inline", "next"} } }

\* C9, as amended: after any sequence of set() calls, for every registered
\* flag none of whose keys (name, aliases) was already a key when it was
\* registered, get(name) and get(alias) for each of its aliases return that
\* flag itself, so such a flag triggered through any of its keys in parse()
\* is seen as triggered under each of them.
C9_NameAndAliasesResolveAlike ==
    \A k \in 1..Len(m_flags) :
        Fresh(k) =>
            \A key \in Keys(m_flags[k]) :
                /\ get(m_table, key) = k
                /\ k \in TriggeredByToken => m_flags[get(m_table, key)].triggered

\* the Number flag d, registered without a collision, was triggered through
\* its alias t and is seen as triggered under its name
C9_Witness ==
    /\ trace # <<>>
    /\ Last.id = <<"t">>
    /\ Last.flag # None
    /\ Fresh(Last.flag)
    /\ Last.flag \in TriggeredByToken
    /\ m_flags[Last.flag].name = <<"d">>
    /\ m_flags[get(m_table, <<"d">>)].triggered

\* C9 as stated: for every registered flag, whatever was registered before
C9_EveryFlagResolvesAlike ==
    \A k \in 1..Len(m_flags) :
        \A key \in Keys(m_flags[k]) : get(m_table, key) = k

--------------------------------------------------------------------------
(* C10 *)

\* the step is a call of set(); the flag it registers and where it is stored
SetStep == Len(m_flags') = Len(m_flags) + 1
NewPos == Len(m_flags')
NewFlag == m_flags'[NewPos]

\* C10, as amended: when set() registers a flag whose name or alias is
\* already a key of the flag table, the first registration wins: every key
\* the table had keeps resolving to the flag it resolved to, only the keys
\* that were new resolve to the later flag; set() reports no error and the
\* later flag is still appended to the flag store.
C10_FirstRegistrationWins ==
    [][ SetStep =>
          /\ m_flags' = Append(m_flags, NewFlag)
          /\ DOMAIN m_table' = DOMAIN m_table \cup Keys(NewFlag)
          /\ \A key \in DOMAIN m_table : get(m_table', key) = get(m_table, key)
          /\ \A key \in Keys(NewFlag) \ DOMAIN m_table : get(m_table', key) = NewPos
          /\ result' = result
          /\ pc' = pc ]_vars

\* two flags share a key, both are in the flag store and the key resolves to
\* the one registered first
C10_Witness ==
    \E j, k \in 1..Len(m_flags) :
        /\ j < k
        /\ \E key \in Keys(m_flags[j]) \cap Keys(m_flags[k]) : get(m_table, key) = j

\* C10 as stated: the last registration wins, each key of the flag just
\* registered resolves to it
C10_LastRegistrationWins ==
    [][ SetStep =>
          /\ m_flags' = Append(m_flags, NewFlag)
          /\ \A key \in Keys(NewFlag) : get(m_table', key) = NewPos
          /\ result' = result
          /\ pc' = pc ]_vars

--------------------------------------------------------------------------
(* C11 *)

\* the flags call() has to serve: triggered and with a callback
Eligible == { k \in 1..Len(m_flags) : m_flags[k].triggered /\ m_flags[k].fn # FnNull }

\* the eligible flags whose callback returns an error
Failing == { k \in Eligible : m_flags[k].fn = FnFail }

\* C11: call() invokes callbacks in registration order, only for flags that
\* are triggered and have a callback, each at most once; at the first
\* callback that returns ok = false, call() returns that result and invokes
\* no callback of a later-registered flag; if none fails it returns ok = true.
C11_CallbacksInOrderFirstErrorWins ==
    pc = "called" =>
        /\ \A i \in DOMAIN called : called[i] \in Eligible
        /\ \A i, j \in DOMAIN called : i < j => called[i] < called[j]
        /\ IF Failing = {}
           THEN /\ { called[i] : i \in DOMAIN called } = Eligible
                /\ call_result = ResultOk
           ELSE LET f == CHOOSE k \in Failing : \A k2 \in Failing : k <= k2 IN
                /\ { called[i] : i \in DOMAIN called } = { k \in Eligible : k <= f }
                /\ call_result = ResultFail(m_flags[f].name, "callback failed")

\* call() returned the error of a failing callback and left out the callback
\* of a flag that is triggered, has one and was registered later
C11_Witness ==
    /\ pc = "called"
    /\ ~call_result.ok
    /\ called # <<>>
    /\ \E k \in Eligible : k > called[Len(called)]

--------------------------------------------------------------------------
(* C12 *)

\* C12: for every separator that is not empty, every prefix and every token
\* is_flag accepts, each index parse_flag reads from the token is smaller
\* than the token's length, and the separator position it returns is not
\* greater than the token's length.
C12_TokenizerStaysInBounds ==
    \A i \in DOMAIN trace :
        trace[i].looked =>
            /\ trace[i].maxread < Len(m_args[trace[i].a + 1])
            /\ trace[i].sep_start <= Len(m_args[trace[i].a + 1])

\* where the reads do stay inside the token: a separator not longer than the
\* token (the inner loop never runs past sep.size() - 1)
C12_InBoundsForShortSeparator ==
    \A i \in DOMAIN trace :
        (trace[i].looked /\ Len(m_options.separator) <= Len(m_args[trace[i].a + 1])) =>
            /\ trace[i].maxread < Len(m_args[trace[i].a + 1])
            /\ trace[i].sep_start <= Len(m_args[trace[i].a + 1])

====
